---- MODULE Spec2Model ----
(***************************************************************************)
(* ds::dynamic_array<T> (src/Dynamic_Array/dynamic_array.hpp) as a state   *)
(* machine: a heap of buffers, two named instances A and B that own        *)
(* buffers through their data pointer, and one action per public           *)
(* operation.  Every method is an operator from (heap, object, arguments)  *)
(* to an outcome (heap, object, exception); the actions apply them.        *)
(***************************************************************************)
EXTENDS Integers, Sequences, FiniteSets, TLC

\* ------------------------------------------------------------ constants

\* #define INIT_CAPACITY 16
INIT_CAPACITY == 16

\* Width in bits of `unsigned int` (m_size, capacity).  The build has 32; the
\* model keeps the arithmetic modular and scales the width down so that the
\* values near the top of the range are states TLC can enumerate.
UIntBits == 6

\* push_back is applied while m_size < MaxLen (and, in SpecWide, to full arrays
\* in the upper half of the unsigned range).
MaxLen == 2

\* Number of buffers the heap can hold at once; `new` throws bad_alloc after.
\* (SpecPair and SpecCopy, with two instances, have room for one more.)
MaxBuf == 2

\* Number of push_back / pop_back calls counted in SpecSize.
MaxOps == 6

\* Number of appends in SpecAppend (INIT_CAPACITY + 1 and beyond).
MaxAppend == 17

UIntRange == 2 ^ UIntBits
UIntMax == UIntRange - 1
HalfRange == UIntRange \div 2

\* data = nullptr
NullPtr == 0

\* A slot of `new T[n]` nothing was assigned to yet.
Undef == 0

\* Values of the element type T.
Values == {1, 2}

Instances == {"A", "B"}

VARIABLES
    heap,        \* address -> [live, slots]: the buffers made by new T[n]
    inst,        \* Instances -> [alive, data, m_size, capacity]
    last,        \* the last call: [op, who, exc, step, grew, arg]
    ub,          \* "none", or what an out-of-bounds write led to
    doubleFree,  \* delete[] was applied to a buffer already released
    nPush,       \* SpecSize: push_back calls that returned
    nPop,        \* SpecSize: pop_back calls that returned
    log          \* SpecAppend: the values appended, in order

vars == <<heap, inst, last, ub, doubleFree, nPush, nPop, log>>

\* ----------------------------------------------------------------- heap

NoBuf == [live |-> FALSE, slots |-> <<>>]

\* A heap with room for n buffers, none allocated.
EmptyHeap(n) == [b \in 1 .. n |-> NoBuf]

\* An object that is not constructed (before construction, after destruction,
\* or when its constructor threw).
NoObj == [alive |-> FALSE, data |-> NullPtr, m_size |-> 0, capacity |-> 0]

FreeIds(h) == {b \in DOMAIN h : ~h[b].live}

CanAlloc(h) == FreeIds(h) # {}

NewId(h) == CHOOSE b \in FreeIds(h) : \A c \in FreeIds(h) : b <= c

\* new T[n] at address b
Alloc(h, b, n) == [h EXCEPT ![b] = [live |-> TRUE, slots |-> [i \in 1 .. n |-> Undef]]]

\* The slots behind pointer p (none behind nullptr or a released buffer).
Slots(h, p) == IF p \in DOMAIN h /\ h[p].live THEN h[p].slots ELSE <<>>

\* delete[] p
Release(h, p) == IF p \in DOMAIN h /\ h[p].live THEN [h EXCEPT ![p] = NoBuf] ELSE h

\* delete[] p on a non-null pointer whose buffer is already released
BadRelease(h, p) == p # NullPtr /\ ~(p \in DOMAIN h /\ h[p].live)

\* p[i] = v (i counted from 0); a write outside the buffer changes no slot of it
Store(h, p, i, v) ==
    IF i < Len(Slots(h, p)) THEN [h EXCEPT ![p].slots[i + 1] = v] ELSE h

\* p[i] as a value (i counted from 0); Undef outside the buffer
Load(h, p, i) == IF i < Len(Slots(h, p)) THEN Slots(h, p)[i + 1] ELSE Undef

\* A copy loop that starts at i = 1 and leaves dst[0] unassigned.
CopyLoop_skip_first(h, dst, src, done) ==
    IF dst \in DOMAIN h /\ h[dst].live
    THEN [h EXCEPT ![dst].slots =
            [i \in 1 .. Len(h[dst].slots) |->
                IF i >= 2 /\ i <= done THEN Load(h, src, i - 1) ELSE h[dst].slots[i]]]
    ELSE h

\* for (i = 0; i < n; i++) dst[i] = src[i], stopped after `done` assignments
CopyLoop(h, dst, src, done) ==
    IF dst \in DOMAIN h /\ h[dst].live
    THEN [h EXCEPT ![dst].slots =
            [i \in 1 .. Len(h[dst].slots) |->
                IF i <= done THEN Load(h, src, i - 1) ELSE h[dst].slots[i]]]
    ELSE h

\* for (i = 0; i < n; i++) dst[i] = el, stopped after `done` assignments
FillLoop(h, dst, el, done) ==
    [h EXCEPT ![dst].slots =
        [i \in 1 .. Len(h[dst].slots) |-> IF i <= done THEN el ELSE h[dst].slots[i]]]

\* The number of assignments a loop of n makes when assignment number failAt
\* (counted from 1; 0: none) throws.
Done(n, failAt) == IF failAt >= 1 /\ failAt <= n THEN failAt - 1 ELSE n

Throws(n, failAt) == failAt >= 1 /\ failAt <= n

\* The outcome of a call.
Out(o, h, e) == [obj |-> o, heap |-> h, exc |-> e, step |-> "", grew |-> FALSE,
                 oob |-> FALSE, dfree |-> FALSE]

\* ----------------------------------------------------------- constructors

\* explicit dynamic_array(unsigned int capacity = INIT_CAPACITY)
dynamic_array_sized(h, capacity) ==
    IF capacity = 0 THEN Out(NoObj, h, "invalid_argument")
    ELSE IF ~CanAlloc(h) THEN Out(NoObj, h, "bad_alloc")
    ELSE LET b == NewId(h)
         IN  Out([alive |-> TRUE, data |-> b, m_size |-> 0, capacity |-> capacity],
                 Alloc(h, b, capacity), "none")

\* explicit dynamic_array(unsigned int capacity, const T &element): a throwing
\* assignment is rethrown from the catch block, the object is never
\* constructed and its destructor never runs.
dynamic_array_fill(h, capacity, element, failAt) ==
    IF capacity = 0 THEN Out(NoObj, h, "invalid_argument")
    ELSE IF ~CanAlloc(h) THEN Out(NoObj, h, "bad_alloc")
    ELSE LET b == NewId(h)
             h1 == FillLoop(Alloc(h, b, capacity), b, element, Done(capacity, failAt))
         IN  IF Throws(capacity, failAt)
             THEN Out(NoObj, h1, "copy_failure")
             ELSE Out([alive |-> TRUE, data |-> b, m_size |-> capacity,
                       capacity |-> capacity], h1, "none")

\* A clear() that forgets capacity = 0.
clear_keeps_capacity(h, this) ==
    [Out([this EXCEPT !.data = NullPtr, !.m_size = 0], Release(h, this.data), "none")
     EXCEPT !.dfree = BadRelease(h, this.data)]

\* delete[] data; data = nullptr; m_size = 0; capacity = 0
clear(h, this) ==
    [Out([this EXCEPT !.data = NullPtr, !.m_size = 0, !.capacity = 0],
         Release(h, this.data), "none")
     EXCEPT !.dfree = BadRelease(h, this.data)]

\* ~dynamic_array(): this->clear()
destroy(h, this) == [clear(h, this) EXCEPT !.obj = NoObj]

\* dynamic_array(const std::initializer_list<T> &i_list): delegates to the
\* sized constructor, then data[m_size] = el; ++m_size per element.  The
\* target constructor has completed, so when an assignment throws the
\* destructor runs on the partly filled object.
dynamic_array_ilist(h, i_list, failAt) ==
    LET r == dynamic_array_sized(h, Len(i_list))
        done == Done(Len(i_list), failAt)
        h1 == [r.heap EXCEPT ![r.obj.data].slots =
                  [i \in 1 .. Len(i_list) |-> IF i <= done THEN i_list[i] ELSE Undef]]
        o1 == [r.obj EXCEPT !.m_size = done]
    IN  IF r.exc # "none" THEN r
        ELSE IF Throws(Len(i_list), failAt)
        THEN [destroy(h1, o1) EXCEPT !.exc = "copy_failure"]
        ELSE Out(o1, h1, "none")

\* A copyFrom that copies the pointer instead of the elements.
copyFrom_shallow(h, src, failAt) ==
    Out([alive |-> TRUE, data |-> src.data, m_size |-> src.m_size,
         capacity |-> src.capacity], h, "none")

\* copyFrom(src): capacity = src.capacity; data = new T[capacity]; the
\* elements [0, src.m_size) are assigned one by one; m_size is set last.
copyFrom(h, src, failAt) ==
    IF ~CanAlloc(h) THEN Out(NoObj, h, "bad_alloc")
    ELSE LET b == NewId(h)
             h1 == CopyLoop(Alloc(h, b, src.capacity), b, src.data,
                            Done(src.m_size, failAt))
         IN  IF Throws(src.m_size, failAt)
             THEN [Out(NoObj, h1, "copy_failure")
                   EXCEPT !.oob = Done(src.m_size, failAt) > src.capacity]
             ELSE [Out([alive |-> TRUE, data |-> b, m_size |-> src.m_size,
                        capacity |-> src.capacity], h1, "none")
                   EXCEPT !.oob = src.m_size > src.capacity]

\* dynamic_array(const dynamic_array<T> &other): this->copyFrom(other)
dynamic_array_copy(h, other, failAt) == copyFrom(h, other, failAt)

\* A swap that leaves m_size where it was.
swap_without_size(first, second) ==
    [first |-> [second EXCEPT !.m_size = first.m_size],
     second |-> [first EXCEPT !.m_size = second.m_size]]

\* friend void swap(first, second): data, capacity and m_size change places
swap(first, second) == [first |-> second, second |-> first]

\* operator=(dynamic_array<T> other): the argument is copy-constructed from
\* the source by the caller; swap(*this, other); other is destroyed on return.
assign(h, this, src, failAt) ==
    LET c == dynamic_array_copy(h, src, failAt)
        s == swap(this, c.obj)
        d == destroy(c.heap, s.second)
    IN  IF c.exc # "none" THEN [Out(this, c.heap, c.exc) EXCEPT !.oob = c.oob]
        ELSE [Out(s.first, d.heap, "none") EXCEPT !.oob = c.oob, !.dfree = d.dfree]

\* ------------------------------------------------------------- operations

\* A growth policy without the zero-capacity case.
NewCapacity_no_zero_case(capacity) == (capacity * 2) % UIntRange

\* unsigned int newCapacity = capacity ? capacity * 2 : INIT_CAPACITY
NewCapacity(capacity) ==
    IF capacity # 0 THEN (capacity * 2) % UIntRange ELSE INIT_CAPACITY

\* A reservem_size that releases the old buffer when the copy loop throws.
reservem_size_release_on_throw(h, this, failAt) ==
    IF ~CanAlloc(h) THEN [Out(this, h, "bad_alloc") EXCEPT !.step = "grow"]
    ELSE LET newCapacity == NewCapacity(this.capacity)
             temp == NewId(h)
             done == Done(this.m_size, failAt)
             h1 == CopyLoop(Alloc(h, temp, newCapacity), temp, this.data, done)
             over == done > newCapacity \/ done > Len(Slots(h, this.data))
         IN  IF Throws(this.m_size, failAt)
             THEN [Out(this, Release(h1, this.data), "copy_failure")
                   EXCEPT !.step = "grow", !.oob = over]
             ELSE [Out([this EXCEPT !.data = temp, !.capacity = newCapacity],
                       Release(h1, this.data), "none")
                   EXCEPT !.grew = TRUE, !.oob = over,
                          !.dfree = BadRelease(h1, this.data)]

\* reservem_size(): the new buffer is filled from the old one, then the old
\* one is released and the new one adopted.  A throwing assignment leaves the
\* loop before delete[] data.
reservem_size(h, this, failAt) ==
    IF ~CanAlloc(h) THEN [Out(this, h, "bad_alloc") EXCEPT !.step = "grow"]
    ELSE LET newCapacity == NewCapacity(this.capacity)
             temp == NewId(h)
             done == Done(this.m_size, failAt)
             h1 == CopyLoop(Alloc(h, temp, newCapacity), temp, this.data, done)
             over == done > newCapacity \/ done > Len(Slots(h, this.data))
         IN  IF Throws(this.m_size, failAt)
             THEN [Out(this, h1, "copy_failure") EXCEPT !.step = "grow", !.oob = over]
             ELSE [Out([this EXCEPT !.data = temp, !.capacity = newCapacity],
                       Release(h1, this.data), "none")
                   EXCEPT !.grew = TRUE, !.oob = over,
                          !.dfree = BadRelease(h1, this.data)]

\* push_back(el): if (m_size >= capacity) reservem_size(); data[m_size] = el;
\* ++m_size.  Assignment number failAt of the call throws (0: none).
push_back(h, this, el, failAt) ==
    LET full == this.m_size >= this.capacity
        r == IF full THEN reservem_size(h, this, failAt) ELSE Out(this, h, "none")
        nth == IF full THEN this.m_size + 1 ELSE 1
        o == r.obj
    IN  IF r.exc # "none" THEN r
        ELSE IF failAt = nth THEN [r EXCEPT !.exc = "copy_failure", !.step = "write"]
        ELSE [r EXCEPT !.heap = Store(r.heap, o.data, o.m_size, el),
                       !.obj = [o EXCEPT !.m_size = (o.m_size + 1) % UIntRange],
                       !.oob = r.oob \/ o.m_size >= Len(Slots(r.heap, o.data))]

\* A pop_back without the empty check: --m_size wraps below 0.
pop_back_unchecked(h, this) ==
    Out([this EXCEPT !.m_size = (this.m_size - 1) % UIntRange], h, "none")

\* pop_back(): throws logic_error on an empty array, else --m_size
pop_back(h, this) ==
    IF this.m_size = 0 THEN Out(this, h, "logic_error")
    ELSE Out([this EXCEPT !.m_size = this.m_size - 1], h, "none")

\* operator[](index) / at(index): throws out_of_range when index >= m_size,
\* else a reference to data[index]
at(h, this, index) ==
    IF index >= this.m_size THEN [exc |-> "out_of_range", val |-> Undef]
    ELSE [exc |-> "none", val |-> Load(h, this.data, index)]

\* a[index] = v through the reference operator[] returns
store_at(h, this, index, v) ==
    IF at(h, this, index).exc # "none" THEN Out(this, h, at(h, this, index).exc)
    ELSE [Out(this, Store(h, this.data, index, v), "none")
          EXCEPT !.oob = index >= Len(Slots(h, this.data))]

\* size()
size(this) == this.m_size

\* empty()
empty(this) == this.m_size = 0

\* front(): throws logic_error on an empty array, else data[0]
front(h, this) ==
    IF this.m_size = 0 THEN [exc |-> "logic_error", val |-> Undef]
    ELSE [exc |-> "none", val |-> Load(h, this.data, 0)]

\* back(): throws logic_error on an empty array, else data[m_size - 1]
back(h, this) ==
    IF this.m_size = 0 THEN [exc |-> "logic_error", val |-> Undef]
    ELSE [exc |-> "none", val |-> Load(h, this.data, this.m_size - 1)]

\* The elements [0, m_size) of an object, as indexed access returns them.
Elems(h, this) == [i \in 1 .. this.m_size |-> at(h, this, i - 1).val]

\* ---------------------------------------------------------------- state

InitHeap(n) ==
    /\ heap = EmptyHeap(n)
    /\ inst = [x \in Instances |-> NoObj]
    /\ last = [op |-> "", who |-> "", exc |-> "none", step |-> "", grew |-> FALSE,
               arg |-> <<>>]
    /\ ub = "none"
    /\ doubleFree = FALSE
    /\ nPush = 0
    /\ nPop = 0
    /\ log = <<>>

Init == InitHeap(MaxBuf)

InitPair == InitHeap(MaxBuf + 1)

\* Which assignment of a call throws (0: none).
Fails == 0 .. MaxLen

\* The literal lists handed to the constructor: of 0, 1 and 2 values.
Lists == UNION {[1 .. n -> Values] : n \in {0, 1, 2}}

\* Capacities in the upper half of the unsigned range.
WideCaps == {HalfRange, UIntMax}

Call(op, x, e, r, arg) ==
    [op |-> op, who |-> x, exc |-> e, step |-> r.step, grew |-> r.grew, arg |-> arg]

\* The call `op` on instance x ends with outcome r.  An out-of-bounds write is
\* undefined behaviour: the process dies or runs on with its memory damaged.
Commit(op, x, r, arg) ==
    \E u \in (IF r.oob THEN {"crashed", "corrupted"} ELSE {ub}) :
        /\ ub' = u
        /\ IF r.oob /\ u = "crashed"
           THEN /\ UNCHANGED <<heap, inst, doubleFree>>
                /\ last' = Call(op, x, "crash", r, arg)
           ELSE /\ heap' = r.heap
                /\ inst' = [inst EXCEPT ![x] = r.obj]
                /\ doubleFree' = (doubleFree \/ r.dfree)
                /\ last' = Call(op, x, r.exc, r, arg)

Running == ub # "crashed"

\* -------------------------------------------------------------- actions

ConstructSizedOp(x, c) ==
    /\ Running /\ ~inst[x].alive
    /\ Commit("sized", x, dynamic_array_sized(heap, c), <<>>)

ConstructFillOp(x, c, v, f) ==
    /\ Running /\ ~inst[x].alive
    /\ Commit("fill", x, dynamic_array_fill(heap, c, v, f), <<>>)

ConstructIListOp(x, il, f) ==
    /\ Running /\ ~inst[x].alive
    /\ Commit("ilist", x, dynamic_array_ilist(heap, il, f), il)

ConstructCopyOp(x, y, f) ==
    /\ Running /\ ~inst[x].alive /\ inst[y].alive /\ x # y
    /\ Commit("copy", x, dynamic_array_copy(heap, inst[y], f), <<>>)

AssignOp(x, y, f) ==
    /\ Running /\ inst[x].alive /\ inst[y].alive
    /\ Commit("assign", x, assign(heap, inst[x], inst[y], f), <<y>>)

PushBackOp(x, v, f) ==
    /\ Running /\ inst[x].alive
    /\ Commit("push_back", x, push_back(heap, inst[x], v, f), <<>>)

PopBackOp(x) ==
    /\ Running /\ inst[x].alive
    /\ Commit("pop_back", x, pop_back(heap, inst[x]), <<>>)

ClearOp(x) ==
    /\ Running /\ inst[x].alive
    /\ Commit("clear", x, clear(heap, inst[x]), <<>>)

StoreAtOp(x, i, v) ==
    /\ Running /\ inst[x].alive
    /\ Commit("store_at", x, store_at(heap, inst[x], i, v), <<>>)

DestroyOp(x) ==
    /\ Running /\ inst[x].alive
    /\ Commit("destroy", x, destroy(heap, inst[x]), <<>>)

\* Capacities and list lengths handed to the constructors.
Caps == {0, 1, 2}

\* Indices handed to operator[] on x: the valid ones and the first invalid one.
Indices(x) == 0 .. inst[x].m_size

Ghosts == <<nPush, nPop, log>>

\* ------------- Spec: one instance, every operation, throwing element type

ConstructSized == \E c \in Caps : ConstructSizedOp("A", c) /\ UNCHANGED Ghosts

ConstructFill ==
    \E c \in Caps, v \in Values, f \in Fails :
        ConstructFillOp("A", c, v, f) /\ UNCHANGED Ghosts

ConstructIList ==
    \E il \in Lists, f \in Fails : ConstructIListOp("A", il, f) /\ UNCHANGED Ghosts

SelfAssign == \E f \in Fails : AssignOp("A", "A", f) /\ UNCHANGED Ghosts

PushBack ==
    \E v \in Values, f \in Fails :
        inst["A"].m_size < MaxLen /\ PushBackOp("A", v, f) /\ UNCHANGED Ghosts

PopBack == PopBackOp("A") /\ UNCHANGED Ghosts

Clear == ClearOp("A") /\ UNCHANGED Ghosts

StoreAt ==
    \E i \in Indices("A"), v \in Values : StoreAtOp("A", i, v) /\ UNCHANGED Ghosts

Destroy == DestroyOp("A") /\ UNCHANGED Ghosts

Next ==
    \/ ConstructSized
    \/ ConstructFill
    \/ ConstructIList
    \/ SelfAssign
    \/ PushBack
    \/ PopBack
    \/ Clear
    \/ StoreAt
    \/ Destroy

Spec == Init /\ [][Next]_vars

\* --------- SpecPair: two instances, copies and assignments between them

PairConstructSized ==
    \E x \in Instances, c \in Caps : ConstructSizedOp(x, c) /\ UNCHANGED Ghosts

PairConstructIList ==
    \E x \in Instances, il \in Lists : ConstructIListOp(x, il, 0) /\ UNCHANGED Ghosts

PairConstructCopy ==
    \E x, y \in Instances : ConstructCopyOp(x, y, 0) /\ UNCHANGED Ghosts

PairAssign ==
    \E x, y \in Instances : AssignOp(x, y, 0) /\ UNCHANGED Ghosts

PairPushBack ==
    \E x \in Instances, v \in Values :
        inst[x].m_size < MaxLen /\ PushBackOp(x, v, 0) /\ UNCHANGED Ghosts

PairPopBack ==
    \E x \in Instances : PopBackOp(x) /\ UNCHANGED Ghosts

PairClear ==
    \E x \in Instances : ClearOp(x) /\ UNCHANGED Ghosts

PairStoreAt ==
    \E x \in Instances : \E i \in Indices(x), v \in Values :
        StoreAtOp(x, i, v) /\ UNCHANGED Ghosts

PairDestroy ==
    \E x \in Instances : DestroyOp(x) /\ UNCHANGED Ghosts

NextPair ==
    \/ PairConstructSized
    \/ PairConstructIList
    \/ PairConstructCopy
    \/ PairAssign
    \/ PairPushBack
    \/ PairPopBack
    \/ PairClear
    \/ PairStoreAt
    \/ PairDestroy

SpecPair == InitPair /\ [][NextPair]_vars

\* ------ SpecCopy: B is copy-constructed from A, then both are mutated

CopyMakeA == \E il \in Lists : ConstructIListOp("A", il, 0) /\ UNCHANGED Ghosts

CopyConstructB == ConstructCopyOp("B", "A", 0) /\ UNCHANGED Ghosts

CopyPushBack ==
    \E x \in Instances, v \in Values :
        inst[x].m_size < MaxLen /\ PushBackOp(x, v, 0) /\ UNCHANGED Ghosts

CopyPopBack ==
    \E x \in Instances : PopBackOp(x) /\ UNCHANGED Ghosts

CopyStoreAt ==
    \E x \in Instances : \E i \in Indices(x), v \in Values :
        StoreAtOp(x, i, v) /\ UNCHANGED Ghosts

CopyClear ==
    \E x \in Instances : ClearOp(x) /\ UNCHANGED Ghosts

NextCopy ==
    \/ CopyMakeA
    \/ CopyConstructB
    \/ CopyPushBack
    \/ CopyPopBack
    \/ CopyStoreAt
    \/ CopyClear

SpecCopy == InitPair /\ [][NextCopy]_vars

\* ------ SpecSize: push_back and pop_back on a container that starts empty

Returned == last'.exc = "none"

SizeConstruct ==
    /\ \E c \in Caps : ConstructSizedOp("A", c)
    /\ nPush' = 0 /\ nPop' = 0 /\ UNCHANGED log

SizePushBack ==
    /\ nPush + nPop < MaxOps
    /\ \E v \in Values, f \in Fails : PushBackOp("A", v, f)
    /\ nPush' = IF Returned THEN nPush + 1 ELSE nPush
    /\ UNCHANGED <<nPop, log>>

SizePopBack ==
    /\ nPush + nPop < MaxOps
    /\ PopBackOp("A")
    /\ nPop' = IF Returned THEN nPop + 1 ELSE nPop
    /\ UNCHANGED <<nPush, log>>

NextSize ==
    \/ SizeConstruct
    \/ SizePushBack
    \/ SizePopBack

SpecSize == Init /\ [][NextSize]_vars

\* ------ SpecAppend: appends to an empty container, the default one included

AppendConstruct ==
    /\ \E c \in Caps \cup {INIT_CAPACITY} : ConstructSizedOp("A", c)
    /\ log' = <<>> /\ UNCHANGED <<nPush, nPop>>

AppendPushBack ==
    /\ Len(log) < MaxAppend
    /\ \E v \in Values :
          /\ PushBackOp("A", v, 0)
          /\ log' = IF Returned THEN Append(log, v) ELSE log
    /\ UNCHANGED <<nPush, nPop>>

NextAppend ==
    \/ AppendConstruct
    \/ AppendPushBack

SpecAppend == Init /\ [][NextAppend]_vars

\* ------ SpecWide: capacities up to the top of the unsigned range

WideConstructSized == \E c \in Caps : ConstructSizedOp("A", c) /\ UNCHANGED Ghosts

WideConstructFill ==
    \E c \in Caps \cup WideCaps, v \in Values :
        ConstructFillOp("A", c, v, 0) /\ UNCHANGED Ghosts

WidePushBack ==
    /\ \/ inst["A"].m_size < MaxLen
       \/ inst["A"].m_size >= HalfRange /\ inst["A"].m_size >= inst["A"].capacity
    /\ \E v \in Values : PushBackOp("A", v, 0)
    /\ UNCHANGED Ghosts

WidePopBack == PopBackOp("A") /\ UNCHANGED Ghosts

WideClear == ClearOp("A") /\ UNCHANGED Ghosts

WideDestroy == DestroyOp("A") /\ UNCHANGED Ghosts

NextWide ==
    \/ WideConstructSized
    \/ WideConstructFill
    \/ WidePushBack
    \/ WidePopBack
    \/ WideClear
    \/ WideDestroy

SpecWide == Init /\ [][NextWide]_vars

\* ------------------------------------------------------------- properties

\* What a caller sees of an object: size() and the elements at [0, size()).
View(h, this) == [size |-> size(this), elems |-> Elems(h, this)]

Max(a, b) == IF a >= b THEN a ELSE b

\* The step is a call `op` on x that returned without throwing.
Did(op, x) == last'.op = op /\ last'.who = x /\ last'.exc = "none"

\* The step leaves size() and the elements of x as they were.
Untouched(x) ==
    /\ inst'[x].alive
    /\ size(inst'[x]) = size(inst[x])
    /\ \A i \in 0 .. inst[x].m_size - 1 :
          at(heap', inst'[x], i) = at(heap, inst[x], i)

\* The other instance.
Other(x) == CHOOSE y \in Instances : y # x

\* The step leaves the elements [0, m_size) of x at their indices.
KeepsElems(x) ==
    \A i \in 0 .. inst[x].m_size - 1 :
        at(heap', inst'[x], i) = at(heap, inst[x], i)

\* C1: starting from an empty container, size() equals the number of
\* push_back calls that returned minus the number of pop_back calls that
\* returned; pop_back on an empty container throws logic_error and leaves
\* size() at 0.
C1_SizeIsPushesMinusPops ==
    /\ [](inst["A"].alive => size(inst["A"]) = nPush - nPop)
    /\ [][(last'.op = "pop_back" /\ size(inst["A"]) = 0)
            => (last'.exc = "logic_error" /\ size(inst'["A"]) = 0)]_vars

C1_Witness ==
    /\ nPush = 2 /\ nPop = 2
    /\ last.op = "pop_back" /\ last.exc = "logic_error"
    /\ size(inst["A"]) = 0

\* C2: after appending v0 .. v(n-1) to a container constructed empty, size()
\* is n and indexed access at i returns vi, across growth reallocations.
C2_AppendKeepsOrder ==
    inst["A"].alive =>
        /\ size(inst["A"]) = Len(log)
        /\ \A i \in 0 .. Len(log) - 1 :
              at(heap, inst["A"], i) = [exc |-> "none", val |-> log[i + 1]]

C2_Witness ==
    /\ inst["A"].alive /\ Len(log) = INIT_CAPACITY + 1
    /\ last.grew /\ inst["A"].capacity = 2 * INIT_CAPACITY

\* C3 as claimed: the capacity of an instance never decreases in a step
\* other than clear(), and is 0 right after clear().
C3_CapacityOnlyClearShrinks ==
    [][/\ \A x \in Instances :
            (inst[x].alive /\ inst'[x].alive /\ ~Did("clear", x))
                => inst'[x].capacity >= inst[x].capacity
       /\ \A x \in Instances : Did("clear", x) => inst'[x].capacity = 0]_vars

\* C3 as amended: the capacity of an instance decreases only in clear(), in
\* a copy assignment to it (which adopts the source's capacity) or in a
\* push_back whose doubling wraps in unsigned int; it is 0 right after
\* clear().
C3_CapacityShrinksOnlyByClearOrAssign ==
    [][/\ \A x \in Instances :
            (inst[x].alive /\ inst'[x].alive /\ inst'[x].capacity < inst[x].capacity)
                => \/ Did("clear", x)
                   \/ Did("assign", x) /\ inst'[x].capacity = inst[last'.arg[1]].capacity
                   \/ Did("push_back", x) /\ 2 * inst[x].capacity >= UIntRange
       /\ \A x \in Instances : Did("clear", x) => inst'[x].capacity = 0]_vars

C3_Witness ==
    /\ last.op = "clear" /\ last.who = "A" /\ last.exc = "none"
    /\ inst["A"].alive /\ inst["A"].capacity = 0
    /\ inst["B"].alive /\ inst["B"].capacity = INIT_CAPACITY

\* C4: when B is copy-constructed from A the two own different buffers, and
\* no call on one of them (push_back, pop_back, indexed write, clear) changes
\* size() or an element of the other.
C4_CopyIsIndependent ==
    /\ []((inst["A"].alive /\ inst["B"].alive /\ inst["B"].data # NullPtr)
            => inst["A"].data # inst["B"].data)
    /\ [][inst[Other(last'.who)].alive => Untouched(Other(last'.who))]_vars

C4_Witness ==
    /\ inst["A"].alive /\ inst["B"].alive
    /\ last.op = "store_at" /\ last.who = "B" /\ last.exc = "none"
    /\ size(inst["A"]) = size(inst["B"])
    /\ Elems(heap, inst["A"]) # Elems(heap, inst["B"])

\* C5: x = y leaves x with y's size and elements, leaves y as it was
\* (x = x leaves x as it was), and leaves the two in different live buffers;
\* no call on one instance changes the fields or the buffer of the other.
C5_AssignHasValueSemantics ==
    [][\A x \in Instances :
          /\ \A y \in Instances :
                (Did("assign", x) /\ last'.arg = <<y>>)
                    => /\ View(heap', inst'[x]) = View(heap, inst[y])
                       /\ View(heap', inst'[y]) = View(heap, inst[y])
                       /\ inst'[x].capacity = Len(Slots(heap', inst'[x].data))
                       /\ x # y => inst'[x].data # inst'[y].data
          /\ (last'.who # x /\ inst[x].alive)
                => /\ inst'[x] = inst[x]
                   /\ Slots(heap', inst[x].data) = Slots(heap, inst[x].data)]_vars

C5_Witness ==
    /\ last.op = "assign" /\ last.who = "A" /\ last.arg = <<"B">> /\ last.exc = "none"
    /\ size(inst["A"]) = MaxLen /\ inst["A"].data # inst["B"].data
    /\ View(heap, inst["A"]) = View(heap, inst["B"])

\* C6 as claimed: constructing from a literal list of n >= 0 values succeeds
\* (unless an element assignment or the allocation throws) with size() = n
\* and the i-th value at index i.
C6_LiteralListOfAnyLength ==
    (last.op = "ilist" /\ last.exc \notin {"copy_failure", "bad_alloc"})
        => /\ last.exc = "none" /\ inst[last.who].alive
           /\ View(heap, inst[last.who]) = [size |-> Len(last.arg), elems |-> last.arg]

\* C7 as claimed: no write lands outside a buffer, and every constructed
\* instance has m_size <= capacity with capacity the size of its buffer.
C7_LengthWithinCapacity ==
    /\ ub = "none"
    /\ \A x \in Instances :
          inst[x].alive =>
              /\ inst[x].m_size <= inst[x].capacity
              /\ inst[x].capacity = Len(Slots(heap, inst[x].data))

\* A push_back on a full container x that returned.
GrowStep(x) ==
    Did("push_back", x) /\ inst[x].alive /\ inst[x].m_size = inst[x].capacity

\* C8 as claimed: push_back on a full container of capacity c grows it to
\* max(2c, 16) and keeps the elements.
C8_GrowsToMaxOfDoubleAndInit ==
    [][\A x \in Instances :
          GrowStep(x) =>
              /\ last'.grew
              /\ inst'[x].capacity = Max(2 * inst[x].capacity, INIT_CAPACITY)
              /\ KeepsElems(x)]_vars

\* C8 as amended: push_back on a full container of capacity c grows it to 16
\* when c = 0 and to 2c, taken in unsigned int, when c > 0; when the new
\* capacity exceeds the old length the elements keep their indices and values.
C8_GrowsToDoubleOrInit ==
    [][\A x \in Instances :
          GrowStep(x) =>
              /\ last'.grew
              /\ inst'[x].capacity =
                    IF inst[x].capacity = 0 THEN INIT_CAPACITY
                    ELSE (2 * inst[x].capacity) % UIntRange
              /\ inst'[x].capacity = Len(Slots(heap', inst'[x].data))
              /\ inst'[x].capacity > inst[x].m_size => KeepsElems(x)]_vars

C8_Witness ==
    /\ last.op = "push_back" /\ last.exc = "none" /\ last.grew
    /\ inst["A"].capacity = 2 /\ inst["A"].m_size = 2
    /\ ub = "none"

\* C9: when an element assignment throws inside the growth step of
\* push_back, the container keeps its buffer, which is not released, and
\* its size, capacity and elements are what they were before the call.
C9_FailedGrowthLeavesContainer ==
    [][\A x \in Instances :
          (last'.op = "push_back" /\ last'.who = x
             /\ last'.exc = "copy_failure" /\ last'.step = "grow")
            => /\ inst'[x] = inst[x]
               /\ heap'[inst[x].data].live
               /\ View(heap', inst'[x]) = View(heap, inst[x])]_vars

C9_Witness ==
    /\ last.op = "push_back" /\ last.exc = "copy_failure" /\ last.step = "grow"
    /\ inst["A"].m_size = MaxLen - 1 /\ inst["A"].m_size >= 1

\* C10 as claimed: no buffer is released twice, and every allocated buffer
\* is the buffer of a constructed instance.
C10_EveryBufferReleasedOnce ==
    /\ ~doubleFree
    /\ \A b \in DOMAIN heap :
          heap[b].live => \E x \in Instances : inst[x].alive /\ inst[x].data = b

====
